---- MODULE Spec2Model ----
(***************************************************************************)
(* Heimdall: a Flask backend that lists trading orders out of one          *)
(* PostgreSQL table and edits JSON config files in one directory.          *)
(*                                                                         *)
(* The model has four parts:                                               *)
(*   - the query endpoints (app.py 58-238): the SQL text and the bind      *)
(*     parameters each handler builds, and the datastore that runs them;   *)
(*   - execute_query (app.py 33-43) step by step, for concurrent calls;    *)
(*   - the config file endpoints (app.py 242-310) over a filesystem;       *)
(*   - json.dump / json.load / json.loads as the handlers use them, on     *)
(*     texts that are sequences of characters.                             *)
(***************************************************************************)
EXTENDS Integers, Sequences, FiniteSets, TLC

VARIABLES
    table,     \* the datastore: order_id -> row of "Orders".shoonya_orders
    files,     \* the config directory: filename -> text, or NoFile
    req,       \* the request handled last
    resp,      \* its response
    io,        \* what handling it did: connections, statements, file operations
    written,   \* filename -> the content payload of the last write request on it
    pc,        \* execute_query, per caller: where the call stands
    conn,      \* execute_query, per caller: the connection it holds (0: none)
    conns      \* every connection made so far: id -> owner, state, counts

vars == <<table, files, req, resp, io, written, pc, conn, conns>>

(***************************************************************************)
(* Bounds of the model.                                                    *)
(***************************************************************************)
MaxRows == 4        \* the small tables hold the rows 1..k, k up to MaxRows
MaxSymbols == 2     \* symbol= is repeated at most MaxSymbols times
MaxStatuses == 1    \* status= is repeated at most MaxStatuses times
MaxExtra == 2       \* the large tables hold up to OrdersLimit + MaxExtra rows
MaxLimitVals == 1   \* symbol= / status= repetitions against the large tables
MaxCallers == 2     \* requests that run execute_query concurrently
MaxConns == 3       \* connections made in one behaviour
MaxLen == 2         \* items of a JSON array or object in a request

(***************************************************************************)
(* Python values of the request.  request.args.get gives None or a string: *)
(* <<>> is None and <<s>> is the string s.  request.args.getlist gives a   *)
(* list of strings.                                                        *)
(***************************************************************************)
None == <<>>

Range(s) == {s[k] : k \in 1..Len(s)}

Truthy(arg) == arg # None /\ arg[1] # ""

MetaAccount == "x' OR '1'='1"
MetaSymbol == "TCS'; DROP TABLE shoonya_orders; --"
MetaStatus == "COMPLETE') OR ('1'='1"

AccountArgs == {None, <<"">>, <<"ACC1">>, <<MetaAccount>>}
DateArgs == {None, <<"">>, <<"2024-01-05">>, <<"not-a-date">>}
SymbolVals == {"TCS", "INFY", MetaSymbol}
StatusVals == {"COMPLETE", MetaStatus}

SeqsUpTo(S, n) == UNION {[1..k -> S] : k \in 0..n}

\* The lists a caller sends name each value once.
ListsUpTo(S, n) ==
    {s \in SeqsUpTo(S, n) : \A i, j \in 1..Len(s) : s[i] = s[j] => i = j}

FilterArgs(n, m) ==
    [account : AccountArgs, date : DateArgs,
     symbols : ListsUpTo(SymbolVals, n), statuses : ListsUpTo(StatusVals, m)]

(***************************************************************************)
(* The datastore.  A row carries the columns the handlers filter, count or *)
(* convert; order_id is the primary key.  created_at is a timestamp.       *)
(***************************************************************************)
RowAt(i) ==
    [order_id |-> i,
     account |-> IF i % 5 = 4 THEN "ACC2" ELSE "ACC1",
     symbol |-> CASE i % 3 = 1 -> "TCS" [] i % 3 = 2 -> "INFY" [] OTHER -> "NIFTY",
     status |-> CASE i % 4 = 2 -> "REJECTED" [] i % 4 = 3 -> "OPEN" [] OTHER -> "COMPLETE",
     transaction_type |-> IF i % 2 = 1 THEN "B" ELSE "S",
     created_at |-> [d |-> IF (i \div 2) % 2 = 0 THEN "2024-01-05" ELSE "2024-01-08",
                     t |-> "09:15:00"]]

TableOf(ids) == [i \in ids |-> RowAt(i)]

WellFormedDates == {"2024-01-05", "2024-01-08"}

\* Postgres' collation of the strings of the model, for ORDER BY.
Collation ==
    <<"2024-01-05", "2024-01-08", "ACC1", "ACC2", "COMPLETE", "INFY", "NIFTY",
      "OPEN", "REJECTED", "TCS">>

Reverse(s) == [i \in 1..Len(s) |-> s[Len(s) + 1 - i]]

SortStrings(S) == SelectSeq(Collation, LAMBDA x : x \in S)

\* The members of the set of integers S within lo..hi, ascending.
RECURSIVE SortIds(_, _, _)
SortIds(S, lo, hi) ==
    IF lo > hi THEN <<>>
    ELSE IF lo = hi THEN (IF lo \in S THEN <<lo>> ELSE <<>>)
    ELSE LET mid == (lo + hi) \div 2
         IN  SortIds(S, lo, mid) \o SortIds(S, mid + 1, hi)

\* The largest member of S (0 for the empty set); S = 1..n is answered directly.
MaxId(S) ==
    IF S = 1..Cardinality(S) THEN Cardinality(S)
    ELSE CHOOSE m \in S : \A x \in S : x <= m

(***************************************************************************)
(* SQL text.  A statement is the sequence of the string pieces the handler *)
(* concatenates; "%s" is psycopg2's placeholder.                           *)
(***************************************************************************)
AccountsSQL ==
    "SELECT DISTINCT account FROM \"Orders\".shoonya_orders ORDER BY account"
DatesSQL ==
    "SELECT DISTINCT DATE(created_at) as order_date FROM \"Orders\".shoonya_orders WHERE account = %s ORDER BY order_date DESC"
SymbolsHead ==
    "SELECT DISTINCT symbol FROM \"Orders\".shoonya_orders WHERE account = %s"
StatusesHead ==
    "SELECT DISTINCT status FROM \"Orders\".shoonya_orders WHERE 1=1"
OrdersHead ==
    "SELECT order_id, symbol, ..., created_at, exit_time, total_order_time FROM \"Orders\".shoonya_orders WHERE 1=1"
StatsHead ==
    "SELECT COUNT(*) as total_orders, COUNT(CASE WHEN transaction_type = 'B' THEN 1 END) as buy_orders, COUNT(CASE WHEN transaction_type = 'S' THEN 1 END) as sell_orders, COUNT(CASE WHEN status = 'COMPLETE' THEN 1 END) as completed, COUNT(CASE WHEN status = 'REJECTED' THEN 1 END) as rejected, COUNT(DISTINCT symbol) as unique_symbols FROM \"Orders\".shoonya_orders WHERE 1=1"

AndAccount == " AND account = %s"
AndDate == " AND DATE(created_at) = %s"
AndSymbolIn == " AND symbol IN ("
AndStatusIn == " AND status IN ("
CloseParen == ")"
Placeholder == "%s"
Comma == ","
OrderBySymbol == " ORDER BY symbol"
OrderByStatus == " ORDER BY status"

\* app.py 185: the number in " ORDER BY order_id ASC LIMIT 500"
OrdersLimit == 500
OrdersTailUnlimited == " ORDER BY order_id ASC"
OrdersTail == " ORDER BY order_id ASC LIMIT 500"

\* ','.join(['%s'] * n)
RECURSIVE Placeholders(_)
Placeholders(n) ==
    IF n = 0 THEN <<>>
    ELSE IF n = 1 THEN <<Placeholder>>
    ELSE Placeholders(n - 1) \o <<Comma, Placeholder>>

(***************************************************************************)
(* The query builders.  A query is the text and the bind parameters.       *)
(***************************************************************************)
\* if account: query += " AND account = %s"; params.append(account)
WithAccount(q, account) ==
    IF Truthy(account)
    THEN [text |-> q.text \o <<AndAccount>>, params |-> Append(q.params, account[1])]
    ELSE q

\* Mutant: the date parameter put first instead of appended.
WithDatePrepended(q, order_date) ==
    IF Truthy(order_date)
    THEN [text |-> q.text \o <<AndDate>>, params |-> <<order_date[1]>> \o q.params]
    ELSE q

\* if order_date: query += " AND DATE(created_at) = %s"; params.append(order_date)
WithDate(q, order_date) ==
    IF Truthy(order_date)
    THEN [text |-> q.text \o <<AndDate>>, params |-> Append(q.params, order_date[1])]
    ELSE q

\* Mutant: the symbols quoted into the text instead of bound.
WithSymbolsInterpolated(q, symbols) ==
    IF symbols # <<>>
    THEN [text |-> q.text \o <<AndSymbolIn>> \o symbols \o <<CloseParen>>,
          params |-> q.params]
    ELSE q

\* if symbols: query += f" AND symbol IN ({placeholders})"; params.extend(symbols)
WithSymbols(q, symbols) ==
    IF symbols # <<>>
    THEN [text |-> q.text \o <<AndSymbolIn>> \o Placeholders(Len(symbols)) \o <<CloseParen>>,
          params |-> q.params \o symbols]
    ELSE q

\* if statuses: query += f" AND status IN ({placeholders})"; params.extend(statuses)
WithStatuses(q, statuses) ==
    IF statuses # <<>>
    THEN [text |-> q.text \o <<AndStatusIn>> \o Placeholders(Len(statuses)) \o <<CloseParen>>,
          params |-> q.params \o statuses]
    ELSE q

WithTail(q, tail) == [text |-> q.text \o <<tail>>, params |-> q.params]

WithFilters(q, args) ==
    WithStatuses(WithSymbols(WithDate(WithAccount(q, args.account), args.date),
                             args.symbols), args.statuses)

AccountsQuery == [text |-> <<AccountsSQL>>, params |-> <<>>]

DatesQuery(account) == [text |-> <<DatesSQL>>, params |-> <<account[1]>>]

SymbolsQuery(account, order_date) ==
    WithTail(WithDate([text |-> <<SymbolsHead>>, params |-> <<account[1]>>], order_date),
             OrderBySymbol)

StatusesQuery(account) ==
    WithTail(WithAccount([text |-> <<StatusesHead>>, params |-> <<>>], account),
             OrderByStatus)

\* Mutant: the row cap left out of the statement.
OrdersQueryUnlimited(args) ==
    WithTail(WithFilters([text |-> <<OrdersHead>>, params |-> <<>>], args),
             OrdersTailUnlimited)

OrdersQuery(args) ==
    WithTail(WithFilters([text |-> <<OrdersHead>>, params |-> <<>>], args), OrdersTail)

\* Mutant: the status filter left out of the aggregate.
StatsQueryNoStatuses(args) ==
    WithSymbols(WithDate(WithAccount([text |-> <<StatsHead>>, params |-> <<>>],
                                     args.account), args.date), args.symbols)

StatsQuery(args) == WithFilters([text |-> <<StatsHead>>, params |-> <<>>], args)

(***************************************************************************)
(* The datastore's reading of a statement: psycopg2 binds the parameters   *)
(* to the placeholders in order and PostgreSQL runs the statement.         *)
(***************************************************************************)
BadStatement == [ok |-> FALSE, conds |-> <<>>, order |-> "none", limit |-> -1]

Tails == {OrderBySymbol, OrderByStatus, OrdersTail, OrdersTailUnlimited}

TailOf(tail) ==
    [ok |-> TRUE, conds |-> <<>>,
     order |-> "asc",
     limit |-> IF tail = OrdersTail THEN OrdersLimit ELSE -1]

WithCond(rest, col, n) == [rest EXCEPT !.conds = <<[col |-> col, n |-> n]>> \o @]

FirstClose(t, i) ==
    IF \E j \in (i + 1)..Len(t) : t[j] = CloseParen
    THEN CHOOSE j \in (i + 1)..Len(t) :
            t[j] = CloseParen /\ \A k \in (i + 1)..(j - 1) : t[k] # CloseParen
    ELSE 0

RECURSIVE ParseClauses(_, _)
\* " AND <col> IN (" %s , %s ... ")" from t[i] to t[j]
ParseInList(t, i, j) ==
    IF j > i + 1 /\ SubSeq(t, i + 1, j - 1) = Placeholders((j - i) \div 2)
    THEN WithCond(ParseClauses(t, j + 1),
                  IF t[i] = AndSymbolIn THEN "symbol" ELSE "status", (j - i) \div 2)
    ELSE BadStatement

ParseClauses(t, i) ==
    IF i > Len(t) THEN [ok |-> TRUE, conds |-> <<>>, order |-> "none", limit |-> -1]
    ELSE IF t[i] \in {AndAccount, AndDate}
    THEN WithCond(ParseClauses(t, i + 1), IF t[i] = AndAccount THEN "account" ELSE "date", 1)
    ELSE IF t[i] \in {AndSymbolIn, AndStatusIn} THEN ParseInList(t, i, FirstClose(t, i))
    ELSE IF i = Len(t) /\ t[i] \in Tails THEN TailOf(t[i])
    ELSE BadStatement

HeadOf(head) ==
    CASE head = AccountsSQL -> [ok |-> TRUE, select |-> "account", conds |-> <<>>, order |-> "asc"]
      [] head = DatesSQL ->
            [ok |-> TRUE, select |-> "order_date",
             conds |-> <<[col |-> "account", n |-> 1]>>, order |-> "desc"]
      [] head = SymbolsHead ->
            [ok |-> TRUE, select |-> "symbol",
             conds |-> <<[col |-> "account", n |-> 1]>>, order |-> "none"]
      [] head = StatusesHead -> [ok |-> TRUE, select |-> "status", conds |-> <<>>, order |-> "none"]
      [] head = OrdersHead -> [ok |-> TRUE, select |-> "orders", conds |-> <<>>, order |-> "none"]
      [] head = StatsHead -> [ok |-> TRUE, select |-> "stats", conds |-> <<>>, order |-> "none"]
      [] OTHER -> [ok |-> FALSE, select |-> "none", conds |-> <<>>, order |-> "none"]

Statement(h, c) ==
    [ok |-> h.ok /\ c.ok, select |-> h.select, conds |-> h.conds \o c.conds,
     order |-> IF c.order = "none" THEN h.order ELSE c.order,
     limit |-> c.limit]

ParseStatement(text) ==
    IF text = <<>> THEN [ok |-> FALSE, select |-> "none", conds |-> <<>>,
                         order |-> "none", limit |-> -1]
    ELSE Statement(HeadOf(text[1]), ParseClauses(text, 2))

RECURSIVE SumN(_)
SumN(conds) == IF conds = <<>> THEN 0 ELSE conds[1].n + SumN(Tail(conds))

\* Each condition with the parameters bound to its placeholders.
RECURSIVE Bind(_, _)
Bind(conds, params) ==
    IF conds = <<>> THEN <<>>
    ELSE <<[col |-> conds[1].col,
            vals |-> {params[k] : k \in 1..conds[1].n}]>>
         \o Bind(Tail(conds), SubSeq(params, conds[1].n + 1, Len(params)))

Column(row, col) ==
    CASE col = "account" -> row.account
      [] col = "date" -> row.created_at.d
      [] col = "symbol" -> row.symbol
      [] col = "status" -> row.status

RowSatisfies(row, bound) ==
    \A k \in 1..Len(bound) : Column(row, bound[k].col) \in bound[k].vals

CountRows(tbl, ids) ==
    [total_orders |-> Cardinality(ids),
     buy_orders |-> Cardinality({i \in ids : tbl[i].transaction_type = "B"}),
     sell_orders |-> Cardinality({i \in ids : tbl[i].transaction_type = "S"}),
     completed |-> Cardinality({i \in ids : tbl[i].status = "COMPLETE"}),
     rejected |-> Cardinality({i \in ids : tbl[i].status = "REJECTED"}),
     unique_symbols |-> Cardinality({tbl[i].symbol : i \in ids})]

Limited(s, limit) == IF limit >= 0 /\ Len(s) > limit THEN SubSeq(s, 1, limit) ELSE s

Ordered(s, order) == IF order = "desc" THEN Reverse(s) ELSE s

RowsOf(tbl, ids) == [k \in 1..Len(ids) |-> tbl[ids[k]]]

Strings(select, tbl, ids) ==
    CASE select = "account" -> {tbl[i].account : i \in ids}
      [] select = "order_date" -> {tbl[i].created_at.d : i \in ids}
      [] select = "symbol" -> {tbl[i].symbol : i \in ids}
      [] select = "status" -> {tbl[i].status : i \in ids}
      [] OTHER -> {}

\* The result of statement p over the rows ids that satisfy its conditions.
Fetch(p, tbl, ids) ==
    CASE p.select = "orders" ->
            RowsOf(tbl, Limited(Ordered(SortIds(ids, 1, MaxId(DOMAIN tbl)), p.order),
                                p.limit))
      [] p.select = "stats" -> <<CountRows(tbl, ids)>>
      [] OTHER -> Ordered(SortStrings(Strings(p.select, tbl, ids)), p.order)

\* A date parameter that is no date: "invalid input syntax for type date".
BadDate(bound) ==
    \E k \in 1..Len(bound) :
        bound[k].col = "date" /\ ~(bound[k].vals \subseteq WellFormedDates)

RunBound(p, bound, tbl) ==
    IF BadDate(bound) THEN [ok |-> FALSE, rows |-> <<>>]
    ELSE [ok |-> TRUE,
          rows |-> Fetch(p, tbl, {i \in DOMAIN tbl : RowSatisfies(tbl[i], bound)})]

RunParsed(p, params, tbl) ==
    IF ~p.ok \/ SumN(p.conds) # Len(params) THEN [ok |-> FALSE, rows |-> <<>>]
    ELSE RunBound(p, Bind(p.conds, params), tbl)

\* cur.execute(query, params); cur.fetchall()
RunStatement(text, params, tbl) == RunParsed(ParseStatement(text), params, tbl)

(***************************************************************************)
(* execute_query, as one step of a handler.  outcome is the environment:   *)
(* the datastore is down ("connect_error"), the statement fails for a      *)
(* reason of the datastore's ("execute_error"), or neither ("ok").         *)
(***************************************************************************)
Outcomes == {"ok", "connect_error", "execute_error"}

Executed(q, r, outcome) ==
    [raised |-> outcome = "execute_error" \/ ~r.ok,
     rows |-> IF outcome = "execute_error" THEN <<>> ELSE r.rows,
     connects |-> 1, closes |-> 1, executed |-> <<q>>]

ExecuteQuery(q, tbl, outcome) ==
    IF outcome = "connect_error"
    THEN [raised |-> TRUE, rows |-> <<>>, connects |-> 0, closes |-> 0, executed |-> <<>>]
    ELSE Executed(q, RunStatement(q.text, q.params, tbl), outcome)

(***************************************************************************)
(* Responses.  A handler returns jsonify(body) with a status, or raises:   *)
(* nothing in the handler catches, and Flask answers 500 with its own      *)
(* error page.                                                             *)
(***************************************************************************)
Json(status, body) == [status |-> status, kind |-> "json", body |-> body]

Unhandled == [status |-> 500, kind |-> "unhandled", body |-> <<>>]

NoIO == [connects |-> 0, closes |-> 0, executed |-> <<>>, fsops |-> <<>>]

QueryIO(r) ==
    [connects |-> r.connects, closes |-> r.closes, executed |-> r.executed, fsops |-> <<>>]

Answer(r, body) ==
    [resp |-> IF r.raised THEN Unhandled ELSE Json(200, body), io |-> QueryIO(r)]

\* datetime.isoformat()
Isoformat(ts) == <<ts.d, "T", ts.t>>

Normalized(rows) == [k \in 1..Len(rows) |-> [rows[k] EXCEPT !.created_at = Isoformat(@)]]

\* jsonify([row[col] for row in rows])
AnswerList(r) == Answer(r, r.rows)

\* the loop over orders, then jsonify(orders)
AnswerOrders(r) == Answer(r, Normalized(r.rows))

\* jsonify(stats[0] if stats else {})
AnswerStats(r) == Answer(r, IF r.rows # <<>> THEN r.rows[1] ELSE [empty |-> TRUE])

EmptyList == [resp |-> Json(200, <<>>), io |-> NoIO]

GetAccountsHandler(tbl, outcome) == AnswerList(ExecuteQuery(AccountsQuery, tbl, outcome))

GetDatesHandler(account, tbl, outcome) ==
    IF ~Truthy(account) THEN EmptyList
    ELSE AnswerList(ExecuteQuery(DatesQuery(account), tbl, outcome))

\* Mutant: "if account is None" in place of "if not account".
GetSymbolsHandlerNoneOnly(account, order_date, tbl, outcome) ==
    IF account = None THEN EmptyList
    ELSE AnswerList(ExecuteQuery(SymbolsQuery(account, order_date), tbl, outcome))

GetSymbolsHandler(account, order_date, tbl, outcome) ==
    IF ~Truthy(account) THEN EmptyList
    ELSE AnswerList(ExecuteQuery(SymbolsQuery(account, order_date), tbl, outcome))

GetStatusesHandler(account, tbl, outcome) ==
    AnswerList(ExecuteQuery(StatusesQuery(account), tbl, outcome))

GetOrdersHandler(args, tbl, outcome) ==
    AnswerOrders(ExecuteQuery(OrdersQuery(args), tbl, outcome))

GetStatsHandler(args, tbl, outcome) ==
    AnswerStats(ExecuteQuery(StatsQuery(args), tbl, outcome))

(***************************************************************************)
(* The query endpoints as actions: one request, handled whole.             *)
(***************************************************************************)
NoRequest == [endpoint |-> "none"]

Idle == req = NoRequest

Handled(request, h) ==
    /\ req' = request
    /\ resp' = h.resp
    /\ io' = h.io
    /\ UNCHANGED <<table, files, written, pc, conn, conns>>

GetAccounts ==
    /\ Idle
    /\ \E outcome \in Outcomes :
           Handled([endpoint |-> "accounts"], GetAccountsHandler(table, outcome))

GetDates ==
    /\ Idle
    /\ \E account \in AccountArgs, outcome \in Outcomes :
           Handled([endpoint |-> "dates", account |-> account],
                   GetDatesHandler(account, table, outcome))

GetSymbols ==
    /\ Idle
    /\ \E account \in AccountArgs, order_date \in DateArgs, outcome \in Outcomes :
           Handled([endpoint |-> "symbols", account |-> account, date |-> order_date],
                   GetSymbolsHandler(account, order_date, table, outcome))

GetStatuses ==
    /\ Idle
    /\ \E account \in AccountArgs, outcome \in Outcomes :
           Handled([endpoint |-> "statuses", account |-> account],
                   GetStatusesHandler(account, table, outcome))

GetOrders(n, m) ==
    /\ Idle
    /\ \E args \in FilterArgs(n, m), outcome \in Outcomes :
           Handled([endpoint |-> "orders", args |-> args],
                   GetOrdersHandler(args, table, outcome))

GetStats(n, m) ==
    /\ Idle
    /\ \E args \in FilterArgs(n, m), outcome \in Outcomes :
           Handled([endpoint |-> "stats", args |-> args],
                   GetStatsHandler(args, table, outcome))

\* The response leaves; nothing of the request stays in the process.
SendResponse ==
    /\ req # NoRequest
    /\ req' = NoRequest
    /\ resp' = Json(200, <<>>)
    /\ io' = NoIO
    /\ UNCHANGED <<table, files, written, pc, conn, conns>>

(***************************************************************************)
(* execute_query step by step, for concurrent callers (app.py 33-43):      *)
(*     conn = get_db_connection()                                          *)
(*     try:     cur.execute(...); return cur.fetchall()                    *)
(*     finally: conn.close()                                               *)
(* pc: "idle", "connected", "fetched" (a result in hand, finally pending), *)
(* "failing" (an error in flight, finally pending), "returned", "raised".  *)
(***************************************************************************)
Callers == 1..MaxCallers

NewConnection(c) ==
    [owner |-> c, open |-> TRUE, uses |-> 1, statements |-> 0, closes |-> 0,
     failed |-> FALSE]

\* conn = get_db_connection(): psycopg2.connect makes a new connection
Acquired(cs, c) == [conns |-> Append(cs, NewConnection(c)), id |-> Len(cs) + 1]

\* Mutant: conn.close() after the return only, not in a finally.
ReleasedOnSuccessOnly(cs, k, failing) ==
    IF failing THEN cs
    ELSE [cs EXCEPT ![k].open = FALSE, ![k].closes = @ + 1]

\* finally: conn.close()
Released(cs, k, failing) == [cs EXCEPT ![k].open = FALSE, ![k].closes = @ + 1]

ConnectStep(c, a) ==
    /\ conns' = a.conns
    /\ conn' = [conn EXCEPT ![c] = a.id]
    /\ pc' = [pc EXCEPT ![c] = "connected"]

Connect(c) ==
    /\ pc[c] = "idle"
    /\ Len(conns) < MaxConns
    /\ ConnectStep(c, Acquired(conns, c))
    /\ UNCHANGED <<table, files, req, resp, io, written>>

ConnectFails(c) ==
    /\ pc[c] = "idle"
    /\ pc' = [pc EXCEPT ![c] = "raised"]
    /\ UNCHANGED <<table, files, req, resp, io, written, conn, conns>>

Execute(c) ==
    /\ pc[c] = "connected"
    /\ conns' = [conns EXCEPT ![conn[c]].statements = @ + 1]
    /\ pc' = [pc EXCEPT ![c] = "fetched"]
    /\ UNCHANGED <<table, files, req, resp, io, written, conn>>

ExecuteFails(c) ==
    /\ pc[c] = "connected"
    /\ conns' = [conns EXCEPT ![conn[c]].statements = @ + 1, ![conn[c]].failed = TRUE]
    /\ pc' = [pc EXCEPT ![c] = "failing"]
    /\ UNCHANGED <<table, files, req, resp, io, written, conn>>

Close(c) ==
    /\ pc[c] \in {"fetched", "failing"}
    /\ conns' = Released(conns, conn[c], pc[c] = "failing")
    /\ pc' = [pc EXCEPT ![c] = IF pc[c] = "fetched" THEN "returned" ELSE "raised"]
    /\ UNCHANGED <<table, files, req, resp, io, written, conn>>

\* The call is over: its result or its error is with the caller.
Leave(c) ==
    /\ pc[c] \in {"returned", "raised"}
    /\ pc' = [pc EXCEPT ![c] = "idle"]
    /\ conn' = [conn EXCEPT ![c] = 0]
    /\ UNCHANGED <<table, files, req, resp, io, written, conns>>

(***************************************************************************)
(* JSON.  A Python value is tagged with its kind; a string is its sequence *)
(* of characters and so is every text (a file, an encoded payload).        *)
(* Numbers are integers.  A dict is its items in insertion order.          *)
(***************************************************************************)
Null == [k |-> "null"]
Bool(b) == [k |-> "bool", b |-> b]
Num(n) == [k |-> "num", n |-> n]
JStr(chars) == [k |-> "str", s |-> chars]
Arr(items) == [k |-> "arr", a |-> items]
Obj(items) == [k |-> "obj", o |-> items]
Item(key, val) == [key |-> key, val |-> val]

Quote == "\""
Backslash == "\\"
Newline == "\n"
DigitChars == <<"0", "1", "2", "3", "4", "5", "6", "7", "8", "9">>
DigitSet == Range(DigitChars)
DigitValue(ch) == (CHOOSE d \in 1..Len(DigitChars) : DigitChars[d] = ch) - 1

\* json.dump(content, f, indent=4): app.py 304
Indent == 4

RECURSIVE Spaces(_)
Spaces(n) == IF n <= 0 THEN <<>> ELSE <<" ">> \o Spaces(n - 1)

RECURSIVE NatChars(_)
NatChars(n) ==
    IF n < Len(DigitChars) THEN <<DigitChars[n + 1]>>
    ELSE NatChars(n \div Len(DigitChars)) \o <<DigitChars[(n % Len(DigitChars)) + 1]>>

IntChars(n) == IF n < 0 THEN <<"-">> \o NatChars(-n) ELSE NatChars(n)

RECURSIVE Escaped(_)
Escaped(chars) ==
    IF chars = <<>> THEN <<>>
    ELSE (CASE chars[1] = Quote -> <<Backslash, Quote>>
            [] chars[1] = Backslash -> <<Backslash, Backslash>>
            [] chars[1] = Newline -> <<Backslash, "n">>
            [] OTHER -> <<chars[1]>>)
         \o Escaped(Tail(chars))

StringChars(chars) == <<Quote>> \o Escaped(chars) \o <<Quote>>

\* The encoder's styles: "indent4" is json.dump(..., indent=4); "python" is
\* json.dumps(...) as it stands; "compact" is JSON.stringify(...).
Styles == {"indent4", "python", "compact"}

Break(style, level) ==
    IF style = "indent4" THEN <<Newline>> \o Spaces(Indent * level) ELSE <<>>

ItemSeparator(style, level) ==
    CASE style = "indent4" -> <<",">> \o Break(style, level)
      [] style = "python" -> <<",", " ">>
      [] OTHER -> <<",">>

KeySeparator(style) == IF style = "compact" THEN <<":">> ELSE <<":", " ">>

RECURSIVE Encode(_, _, _), EncodeItems(_, _, _, _), EncodeMembers(_, _, _, _)
Encode(v, style, level) ==
    CASE v.k = "null" -> <<"n", "u", "l", "l">>
      [] v.k = "bool" -> IF v.b THEN <<"t", "r", "u", "e">> ELSE <<"f", "a", "l", "s", "e">>
      [] v.k = "num" -> IntChars(v.n)
      [] v.k = "str" -> StringChars(v.s)
      [] v.k = "arr" ->
            IF v.a = <<>> THEN <<"[", "]">>
            ELSE <<"[">> \o Break(style, level + 1) \o EncodeItems(v.a, style, level + 1, 1)
                 \o Break(style, level) \o <<"]">>
      [] v.k = "obj" ->
            IF v.o = <<>> THEN <<"{", "}">>
            ELSE <<"{">> \o Break(style, level + 1) \o EncodeMembers(v.o, style, level + 1, 1)
                 \o Break(style, level) \o <<"}">>

EncodeItems(items, style, level, i) ==
    Encode(items[i], style, level)
    \o (IF i = Len(items) THEN <<>>
        ELSE ItemSeparator(style, level) \o EncodeItems(items, style, level, i + 1))

EncodeMembers(items, style, level, i) ==
    StringChars(items[i].key) \o KeySeparator(style) \o Encode(items[i].val, style, level)
    \o (IF i = Len(items) THEN <<>>
        ELSE ItemSeparator(style, level) \o EncodeMembers(items, style, level, i + 1))

\* json.dump(content, f, indent=4)
Dump(v) == Encode(v, "indent4", 0)

(***************************************************************************)
(* json.loads / json.load: the decoder, character by character.  A result  *)
(* is [ok, val, next]: the value read and the index after it.              *)
(***************************************************************************)
Fail == [ok |-> FALSE, val |-> Null, next |-> 0]
Read(v, next) == [ok |-> TRUE, val |-> v, next |-> next]

RECURSIVE SkipWs(_, _)
SkipWs(t, i) ==
    IF i <= Len(t) /\ t[i] \in {" ", Newline} THEN SkipWs(t, i + 1) ELSE i

Literal(t, i, word, v) ==
    IF i + Len(word) - 1 <= Len(t) /\ SubSeq(t, i, i + Len(word) - 1) = word
    THEN Read(v, i + Len(word))
    ELSE Fail

RECURSIVE ReadDigits(_, _, _)
ReadDigits(t, i, acc) ==
    IF i <= Len(t) /\ t[i] \in DigitSet
    THEN ReadDigits(t, i + 1, acc * Len(DigitChars) + DigitValue(t[i]))
    ELSE Read(Num(acc), i)

ReadNat(t, i) ==
    IF i > Len(t) \/ t[i] \notin DigitSet THEN Fail
    ELSE IF t[i] = "0" THEN Read(Num(0), i + 1)
    ELSE ReadDigits(t, i, 0)

Negated(r) == IF r.ok THEN Read(Num(-r.val.n), r.next) ELSE Fail

ReadNumber(t, i) == IF t[i] = "-" THEN Negated(ReadNat(t, i + 1)) ELSE ReadNat(t, i)

RECURSIVE ReadString(_, _, _)
\* t[i] is the character after the opening quote or after the characters of acc
ReadString(t, i, acc) ==
    IF i > Len(t) \/ t[i] = Newline THEN Fail
    ELSE IF t[i] = Quote THEN Read(JStr(acc), i + 1)
    ELSE IF t[i] = Backslash THEN
        IF i + 1 <= Len(t) /\ t[i + 1] \in {Quote, Backslash}
        THEN ReadString(t, i + 2, Append(acc, t[i + 1]))
        ELSE IF i + 1 <= Len(t) /\ t[i + 1] = "n"
        THEN ReadString(t, i + 2, Append(acc, Newline))
        ELSE Fail
    ELSE ReadString(t, i + 1, Append(acc, t[i]))

\* dict semantics: a repeated key keeps its place and takes the later value
Put(items, key, val) ==
    IF \E k \in 1..Len(items) : items[k].key = key
    THEN [k \in 1..Len(items) |-> IF items[k].key = key THEN Item(key, val) ELSE items[k]]
    ELSE Append(items, Item(key, val))

RECURSIVE ReadValue(_, _), ReadAt(_, _), ReadItems(_, _, _), AfterItem(_, _, _),
          ItemEnd(_, _, _), ReadMembers(_, _, _), AfterKey(_, _, _), Colon(_, _, _, _),
          AfterMember(_, _, _, _), MemberEnd(_, _, _)
ReadValue(t, i) == ReadAt(t, SkipWs(t, i))

ReadAt(t, i) ==
    IF i > Len(t) THEN Fail
    ELSE CASE t[i] = "n" -> Literal(t, i, <<"n", "u", "l", "l">>, Null)
           [] t[i] = "t" -> Literal(t, i, <<"t", "r", "u", "e">>, Bool(TRUE))
           [] t[i] = "f" -> Literal(t, i, <<"f", "a", "l", "s", "e">>, Bool(FALSE))
           [] t[i] = Quote -> ReadString(t, i + 1, <<>>)
           [] t[i] = "[" -> ReadItems(t, SkipWs(t, i + 1), <<>>)
           [] t[i] = "{" -> ReadMembers(t, SkipWs(t, i + 1), <<>>)
           [] t[i] \in DigitSet \cup {"-"} -> ReadNumber(t, i)
           [] OTHER -> Fail

ReadItems(t, i, acc) ==
    IF acc = <<>> /\ i <= Len(t) /\ t[i] = "]" THEN Read(Arr(<<>>), i + 1)
    ELSE AfterItem(t, ReadValue(t, i), acc)

AfterItem(t, r, acc) ==
    IF r.ok THEN ItemEnd(t, SkipWs(t, r.next), Append(acc, r.val)) ELSE Fail

ItemEnd(t, i, acc) ==
    IF i > Len(t) THEN Fail
    ELSE IF t[i] = "]" THEN Read(Arr(acc), i + 1)
    ELSE IF t[i] = "," THEN ReadItems(t, i + 1, acc)
    ELSE Fail

ReadMembers(t, i, acc) ==
    IF acc = <<>> /\ i <= Len(t) /\ t[i] = "}" THEN Read(Obj(<<>>), i + 1)
    ELSE IF i <= Len(t) /\ t[i] = Quote THEN AfterKey(t, ReadString(t, i + 1, <<>>), acc)
    ELSE Fail

AfterKey(t, key, acc) ==
    IF key.ok THEN Colon(t, SkipWs(t, key.next), key.val.s, acc) ELSE Fail

Colon(t, i, key, acc) ==
    IF i <= Len(t) /\ t[i] = ":" THEN AfterMember(t, ReadValue(t, i + 1), key, acc)
    ELSE Fail

AfterMember(t, r, key, acc) ==
    IF r.ok THEN MemberEnd(t, SkipWs(t, r.next), Put(acc, key, r.val)) ELSE Fail

MemberEnd(t, i, acc) ==
    IF i > Len(t) THEN Fail
    ELSE IF t[i] = "}" THEN Read(Obj(acc), i + 1)
    ELSE IF t[i] = "," THEN ReadMembers(t, SkipWs(t, i + 1), acc)
    ELSE Fail

\* the whole text is one value: anything after it is "Extra data"
Whole(t, r) ==
    IF r.ok /\ SkipWs(t, r.next) > Len(t) THEN [ok |-> TRUE, val |-> r.val]
    ELSE [ok |-> FALSE, val |-> Null]

Loads(t) == Whole(t, ReadValue(t, 1))

(***************************************************************************)
(* The config directory.  A filename is its sequence of characters; the    *)
(* filesystem maps the path os.path.join(CONFIG_DIR, filename) names to    *)
(* the text of the file there, if there is one.                            *)
(***************************************************************************)
NoFile == <<"<no file>">>

AJson == <<"a", ".", "j", "s", "o", "n">>
ADotsJson == <<"a", ".", ".", "j", "s", "o", "n">>
Parent == <<".", ".">>
Filenames == {AJson, ADotsJson, Parent, Parent \o <<"/">> \o AJson, <<"x", "/">> \o AJson}

Contains(s, sub) ==
    \E i \in 1..(Len(s) - Len(sub) + 1) : SubSeq(s, i, i + Len(sub) - 1) = sub

EndsWith(s, suffix) ==
    Len(s) >= Len(suffix) /\ SubSeq(s, Len(s) - Len(suffix) + 1, Len(s)) = suffix

\* Mutant: only the parent-directory segment is refused.
BadNameDotsOnly(filename) == Contains(filename, Parent)

\* if '..' in filename or '/' in filename
BadName(filename) == Contains(filename, Parent) \/ Contains(filename, <<"/">>)

Failure(message) == [success |-> FALSE, error |-> message]

Done(resp_, fs, ops) == [resp |-> resp_, files |-> fs, fsops |-> ops]

\* The directory entries, sorted by name.
NameOrder == <<ADotsJson, AJson>>

Listing(fs) ==
    LET names == SelectSeq(NameOrder,
                           LAMBDA n : fs[n] # NoFile /\ EndsWith(n, <<".", "j", "s", "o", "n">>))
    IN  [k \in 1..Len(names) |-> [name |-> names[k], size |-> Len(fs[names[k]])]]

\* get_config_files; outcome "io_error" is an OSError of a filesystem call
GetConfigFilesHandler(fs, outcome) ==
    IF outcome = "io_error"
    THEN Done(Json(500, Failure("OSError")), fs, <<"exists", "listdir">>)
    ELSE Done(Json(200, [success |-> TRUE, files |-> Listing(fs)]), fs,
              <<"exists", "listdir", "stat">>)

Loaded(filename, fs, r) ==
    IF r.ok
    THEN Done(Json(200, [success |-> TRUE, filename |-> filename, content |-> r.val]),
              fs, <<"exists", "open_r">>)
    ELSE Done(Json(400, Failure("Invalid JSON")), fs, <<"exists", "open_r">>)

\* get_config_file
GetConfigFileHandler(filename, fs, outcome) ==
    IF BadName(filename) THEN Done(Json(400, Failure("Invalid filename")), fs, <<>>)
    ELSE IF fs[filename] = NoFile
    THEN Done(Json(404, Failure("File not found")), fs, <<"exists">>)
    ELSE IF outcome = "io_error"
    THEN Done(Json(500, Failure("OSError")), fs, <<"exists", "open_r">>)
    ELSE Loaded(filename, fs, Loads(fs[filename]))

ContentKey == <<"content">>

\* data.get('content') of a dict
GetContent(data) ==
    IF \E k \in 1..Len(data.o) : data.o[k].key = ContentKey
    THEN data.o[CHOOSE k \in 1..Len(data.o) : data.o[k].key = ContentKey].val
    ELSE Null

Saved(filename) == [success |-> TRUE, message |-> <<"File ", filename, " saved successfully">>]

\* Mutant: the file opened with 'a' instead of 'w'.
StoredAppending(filename, content, fs, outcome) ==
    IF outcome = "io_error" THEN Done(Json(500, Failure("OSError")), fs, <<"open_w">>)
    ELSE Done(Json(200, Saved(filename)),
              [fs EXCEPT ![filename] = (IF @ = NoFile THEN <<>> ELSE @) \o Dump(content)],
              <<"open_w">>)

\* with open(filepath, 'w') as f: json.dump(content, f, indent=4)
Stored(filename, content, fs, outcome) ==
    IF outcome = "io_error" THEN Done(Json(500, Failure("OSError")), fs, <<"open_w">>)
    ELSE Done(Json(200, Saved(filename)), [fs EXCEPT ![filename] = Dump(content)],
              <<"open_w">>)

StoredParsed(filename, r, fs, outcome) ==
    IF r.ok THEN Stored(filename, r.val, fs, outcome)
    ELSE Done(Json(400, Failure("Invalid JSON")), fs, <<>>)

\* Mutant: a string payload is stored as it is, not parsed.
WithContentUnparsed(filename, content, fs, outcome) ==
    IF content = Null THEN Done(Json(400, Failure("No content provided")), fs, <<>>)
    ELSE Stored(filename, content, fs, outcome)

\* from "if content is None" on
WithContent(filename, content, fs, outcome) ==
    IF content = Null THEN Done(Json(400, Failure("No content provided")), fs, <<>>)
    ELSE IF content.k = "str" THEN StoredParsed(filename, Loads(content.s), fs, outcome)
    ELSE Stored(filename, content, fs, outcome)

\* save_config_file.  data is what request.get_json() gives: it raises
\* (a body that is no JSON), or returns the body's value, None for null.
SaveConfigFileHandler(filename, data, fs, outcome) ==
    IF BadName(filename) THEN Done(Json(400, Failure("Invalid filename")), fs, <<>>)
    ELSE IF data.kind = "raises" THEN Done(Json(500, Failure("400 Bad Request")), fs, <<>>)
    ELSE IF data.v = Null THEN Done(Json(400, Failure("No JSON data provided")), fs, <<>>)
    ELSE IF data.v.k # "obj"
    THEN Done(Json(500, Failure("object has no attribute 'get'")), fs, <<>>)
    ELSE WithContent(filename, GetContent(data.v), fs, outcome)

(***************************************************************************)
(* The requests to the config endpoints.                                   *)
(***************************************************************************)
ElemVals == {Null, Num(7), JStr(<<"a">>)}

KeyAt(i) == <<"k">> \o NatChars(i)

Scalars ==
    {Null, Bool(TRUE), Bool(FALSE), Num(0), Num(12), Num(-3), JStr(<<>>), JStr(<<"a">>),
     JStr(<<"1", "2">>), JStr(<<"q", Quote>>)}

Arrays == {Arr(items) : items \in SeqsUpTo(ElemVals, MaxLen)}

Nested ==
    Obj(<<Item(<<"list">>, Arr(<<Num(12), Obj(<<>>), JStr(<<"q", Quote, Backslash>>)>>)),
          Item(<<"inner">>, Obj(<<Item(<<"on">>, Bool(FALSE))>>))>>)

Objects ==
    {Obj([i \in 1..Len(vals) |-> Item(KeyAt(i), vals[i])]) : vals \in SeqsUpTo(ElemVals, MaxLen)}
    \cup {Nested}

JsonValues == Scalars \cup Arrays \cup Objects

EncodedObjects == {JStr(Encode(o, style, 0)) : o \in Objects, style \in Styles}

Broken == {JStr(<<"{">>), JStr(<<"[", "1", ",", "]">>)}

Contents == JsonValues \cup EncodedObjects \cup Broken

Body(content) == [kind |-> "value", v |-> Obj(<<Item(ContentKey, content)>>)]

Bodies ==
    {[kind |-> "raises"]}
    \cup {[kind |-> "value", v |-> v] : v \in {Null, Arr(<<>>), Num(1), Obj(<<>>)}}
    \cup {Body(content) : content \in Contents}

HasContent(data) ==
    /\ data.kind = "value"
    /\ data.v.k = "obj"
    /\ \E k \in 1..Len(data.v.o) : data.v.o[k].key = ContentKey

\* Every body goes to a.json; the other filenames get one body of each kind.
BodiesFor(filename) ==
    IF filename = AJson THEN Bodies
    ELSE {[kind |-> "raises"], [kind |-> "value", v |-> Null], Body(Null), Body(Nested),
          Body(JStr(Encode(Nested, "compact", 0)))}

FileOutcomes == {"ok", "io_error"}

ConfigHandled(request, h) ==
    /\ req' = request
    /\ resp' = h.resp
    /\ files' = h.files
    /\ io' = [NoIO EXCEPT !.fsops = h.fsops]
    /\ UNCHANGED <<table, pc, conn, conns>>

GetConfigFiles ==
    /\ Idle
    /\ \E outcome \in FileOutcomes :
           /\ ConfigHandled([endpoint |-> "list"],
                            GetConfigFilesHandler(files, outcome))
           /\ UNCHANGED written

GetConfigFile ==
    /\ Idle
    /\ \E filename \in Filenames, outcome \in FileOutcomes :
           /\ ConfigHandled([endpoint |-> "read", filename |-> filename],
                            GetConfigFileHandler(filename, files, outcome))
           /\ UNCHANGED written

\* written remembers the content of a write request that met no OSError.
SaveConfigFile ==
    /\ Idle
    /\ \E filename \in Filenames, outcome \in FileOutcomes :
         \E data \in BodiesFor(filename) :
           /\ ConfigHandled([endpoint |-> "write", filename |-> filename, data |-> data],
                            SaveConfigFileHandler(filename, data, files, outcome))
           /\ written' = IF HasContent(data) /\ filename = AJson
                         THEN [written EXCEPT ![filename] =
                                  IF outcome = "ok" THEN <<GetContent(data.v)>> ELSE <<>>]
                         ELSE written


InitRest ==
    /\ files = [f \in Filenames |-> NoFile]
    /\ req = NoRequest
    /\ resp = Json(200, <<>>)
    /\ io = NoIO
    /\ written = [f \in Filenames |-> <<>>]
    /\ pc = [c \in Callers |-> "idle"]
    /\ conn = [c \in Callers |-> 0]
    /\ conns = <<>>

\* The query endpoints over every small table.
Init ==
    /\ table \in {TableOf(1..k) : k \in 0..MaxRows}
    /\ InitRest

Next ==
    \/ GetAccounts
    \/ GetDates
    \/ GetSymbols
    \/ GetStatuses
    \/ GetOrders(MaxSymbols, MaxStatuses)
    \/ GetStats(MaxSymbols, MaxStatuses)
    \/ SendResponse

Spec == Init /\ [][Next]_vars

\* The orders and stats endpoints over tables around and above the row cap.
LargeSizes ==
    {0, 1} \cup {OrdersLimit - 1 + k : k \in 0..(MaxExtra + 1)} \cup {OrdersLimit + 140}

InitLimit ==
    /\ table \in {TableOf(1..n) : n \in LargeSizes}
    /\ InitRest

NextLimit ==
    \/ GetOrders(MaxLimitVals, MaxLimitVals)
    \/ GetStats(MaxLimitVals, MaxLimitVals)
    \/ SendResponse

SpecLimit == InitLimit /\ [][NextLimit]_vars

\* Concurrent calls of execute_query.
InitConn ==
    /\ table = TableOf({})
    /\ InitRest

NextConn ==
    \E c \in Callers :
        \/ Connect(c)
        \/ ConnectFails(c)
        \/ Execute(c)
        \/ ExecuteFails(c)
        \/ Close(c)
        \/ Leave(c)

SpecConn == InitConn /\ [][NextConn]_vars

\* The config endpoints; a.json is absent, is JSON or is not JSON at the start.
InitConfig ==
    /\ table = TableOf({})
    /\ files \in {[f \in Filenames |-> IF f = AJson THEN text ELSE NoFile] :
                     text \in {NoFile, Dump(Obj(<<>>)), <<"#", " ", "t", "o", "d", "o">>}}
    /\ req = NoRequest
    /\ resp = Json(200, <<>>)
    /\ io = NoIO
    /\ written = [f \in Filenames |-> <<>>]
    /\ pc = [c \in Callers |-> "idle"]
    /\ conn = [c \in Callers |-> 0]
    /\ conns = <<>>

NextConfig ==
    \/ GetConfigFiles
    \/ GetConfigFile
    \/ SaveConfigFile
    \/ SendResponse

SpecConfig == InitConfig /\ [][NextConfig]_vars

(***************************************************************************)
(* What a filter selection means, stated on the rows themselves.           *)
(***************************************************************************)
Matches(args, account, day, symbol, status) ==
    /\ Truthy(args.account) => account = args.account[1]
    /\ Truthy(args.date) => day = args.date[1]
    /\ args.symbols # <<>> => symbol \in Range(args.symbols)
    /\ args.statuses # <<>> => status \in Range(args.statuses)

MatchingIds(args, tbl) ==
    {i \in DOMAIN tbl :
        Matches(args, tbl[i].account, tbl[i].created_at.d, tbl[i].symbol, tbl[i].status)}

Queried == req # NoRequest /\ io.executed # <<>>

TheQuery == io.executed[1]

\* The requests that differ from request only in the values of its filters.
SameShape(request) ==
    CASE request.endpoint \in {"orders", "stats"} ->
            {[endpoint |-> request.endpoint, args |-> a] :
                a \in [account : {x \in AccountArgs : Truthy(x) = Truthy(request.args.account)},
                       date : {x \in DateArgs : Truthy(x) = Truthy(request.args.date)},
                       symbols : [1..Len(request.args.symbols) -> SymbolVals],
                       statuses : [1..Len(request.args.statuses) -> StatusVals]]}
      [] request.endpoint = "symbols" ->
            {[endpoint |-> "symbols", account |-> a, date |-> d] :
                a \in {x \in AccountArgs : Truthy(x)},
                d \in {x \in DateArgs : Truthy(x) = Truthy(request.date)}}
      [] request.endpoint \in {"dates", "statuses"} ->
            {[endpoint |-> request.endpoint, account |-> a] :
                a \in {x \in AccountArgs : Truthy(x) = Truthy(request.account)}}
      [] OTHER -> {request}

QueryOf(request) ==
    CASE request.endpoint = "orders" -> OrdersQuery(request.args)
      [] request.endpoint = "stats" -> StatsQuery(request.args)
      [] request.endpoint = "symbols" -> SymbolsQuery(request.account, request.date)
      [] request.endpoint = "dates" -> DatesQuery(request.account)
      [] request.endpoint = "statuses" -> StatusesQuery(request.account)
      [] OTHER -> AccountsQuery

Given(arg) == IF Truthy(arg) THEN <<arg[1]>> ELSE <<>>

\* The values the user supplied that the handler uses, in the order of the clauses.
UserValues(request) ==
    CASE request.endpoint \in {"orders", "stats"} ->
            Given(request.args.account) \o Given(request.args.date)
                \o request.args.symbols \o request.args.statuses
      [] request.endpoint = "symbols" -> Given(request.account) \o Given(request.date)
      [] request.endpoint \in {"dates", "statuses"} -> Given(request.account)
      [] OTHER -> <<>>

\* C1: every user-supplied value of a request to the orders, stats, dates, symbols
\* and statuses endpoints goes to the bind parameters and none is a piece of the
\* SQL text; two requests with the same filters present and the same numbers of
\* symbol and status values give the same SQL text, whatever the values are.
C1_ValuesAreBoundNotInterpolated ==
    Queried =>
        /\ TheQuery.params = UserValues(req)
        /\ Range(TheQuery.text) \cap Range(UserValues(req)) = {}
        /\ \A other \in SameShape(req) : QueryOf(other).text = TheQuery.text

C1_Witness ==
    /\ Queried
    /\ req.endpoint = "orders"
    /\ req.args.symbols = <<MetaSymbol, "TCS">>
    /\ req.args.statuses = <<MetaStatus>>
    /\ req.args.account = <<MetaAccount>>
    /\ resp.status = 200

Present(b) == IF b THEN 1 ELSE 0

ExpectedConds(args) ==
    (IF Truthy(args.account) THEN <<[col |-> "account", n |-> 1]>> ELSE <<>>)
    \o (IF Truthy(args.date) THEN <<[col |-> "date", n |-> 1]>> ELSE <<>>)
    \o (IF args.symbols # <<>> THEN <<[col |-> "symbol", n |-> Len(args.symbols)]>> ELSE <<>>)
    \o (IF args.statuses # <<>> THEN <<[col |-> "status", n |-> Len(args.statuses)]>> ELSE <<>>)

PlaceholderCount(text) ==
    Cardinality({k \in 1..Len(text) :
        text[k] \in {Placeholder, AndAccount, AndDate, DatesSQL, SymbolsHead}})

\* C2: in the orders listing every present filter of account, date, symbols and
\* statuses gives exactly one AND-ed condition (IN with one placeholder per value
\* for symbols and statuses), the placeholders are as many as the parameters, the
\* parameters are account, date, symbols..., statuses..., and every returned
\* record satisfies every present filter.
C2_OrdersFiltersCombineWithAnd ==
    (Queried /\ req.endpoint = "orders") =>
        /\ ParseStatement(TheQuery.text).ok
        /\ ParseStatement(TheQuery.text).conds = ExpectedConds(req.args)
        /\ PlaceholderCount(TheQuery.text) = Len(TheQuery.params)
        /\ TheQuery.params = UserValues(req)
        /\ resp.kind = "json" =>
              \A k \in 1..Len(resp.body) :
                  Matches(req.args, resp.body[k].account, resp.body[k].created_at[1],
                          resp.body[k].symbol, resp.body[k].status)

C2_Witness ==
    /\ Queried
    /\ req.endpoint = "orders"
    /\ req.args = [account |-> <<"ACC1">>, date |-> <<"2024-01-05">>,
                   symbols |-> <<"TCS", "INFY">>, statuses |-> <<"COMPLETE">>]
    /\ Len(ParseStatement(TheQuery.text).conds) = 4
    /\ resp.kind = "json"
    /\ Len(resp.body) >= 1
    /\ Cardinality(DOMAIN table) > Len(resp.body)

BodyIds == {resp.body[k].order_id : k \in 1..Len(resp.body)}

\* C3: the orders listing returns at most 500 records; they are in ascending
\* order of order identifier, and when more than 500 rows match they are the 500
\* matching rows with the smallest order identifiers.
C3_OrdersCappedAtLimit ==
    (req # NoRequest /\ req.endpoint = "orders" /\ resp.kind = "json") =>
        /\ Len(resp.body) <= OrdersLimit
        /\ \A k \in 1..(Len(resp.body) - 1) :
              resp.body[k].order_id < resp.body[k + 1].order_id
        /\ BodyIds \subseteq MatchingIds(req.args, table)
        /\ Cardinality(MatchingIds(req.args, table)) > OrdersLimit =>
              /\ Len(resp.body) = OrdersLimit
              /\ \A i \in MatchingIds(req.args, table) \ BodyIds :
                    i > resp.body[OrdersLimit].order_id
        /\ Cardinality(MatchingIds(req.args, table)) <= OrdersLimit =>
              BodyIds = MatchingIds(req.args, table)

C3_Witness ==
    /\ req # NoRequest
    /\ req.endpoint = "orders"
    /\ resp.kind = "json"
    /\ Truthy(req.args.account)
    /\ Cardinality(MatchingIds(req.args, table)) > OrdersLimit
    /\ Len(resp.body) = OrdersLimit
    /\ resp.body[OrdersLimit].order_id > OrdersLimit

\* C4: with the account parameter omitted or empty, the dates endpoint and the
\* symbols endpoint answer 200 with an empty sequence, and neither opens a
\* datastore connection nor executes a query.
C4_NoAccountGivesEmptyList ==
    (req # NoRequest /\ req.endpoint \in {"dates", "symbols"} /\ ~Truthy(req.account)) =>
        /\ resp = Json(200, <<>>)
        /\ io.connects = 0
        /\ io.executed = <<>>

C4_Witness ==
    /\ req # NoRequest
    /\ req.endpoint = "symbols"
    /\ req.account = <<"">>
    /\ req.date = <<"2024-01-05">>
    /\ resp = Json(200, <<>>)
    /\ table # <<>>

\* C10: the stats of a filter selection are the six counts over all the rows
\* that match it under the rules of the orders listing: the total is the number
\* of matching rows, not capped at 500, and when no row matches all six counts
\* are zero.
C10_StatsCountMatchingRows ==
    (req # NoRequest /\ req.endpoint = "stats" /\ resp.kind = "json") =>
        LET ids == MatchingIds(req.args, table)
        IN  /\ resp.body =
                 [total_orders |-> Cardinality(ids),
                  buy_orders |-> Cardinality({i \in ids : table[i].transaction_type = "B"}),
                  sell_orders |-> Cardinality({i \in ids : table[i].transaction_type = "S"}),
                  completed |-> Cardinality({i \in ids : table[i].status = "COMPLETE"}),
                  rejected |-> Cardinality({i \in ids : table[i].status = "REJECTED"}),
                  unique_symbols |-> Cardinality({table[i].symbol : i \in ids})]
            /\ ids = {} =>
                  resp.body = [total_orders |-> 0, buy_orders |-> 0, sell_orders |-> 0,
                               completed |-> 0, rejected |-> 0, unique_symbols |-> 0]

C10_Witness ==
    /\ req # NoRequest
    /\ req.endpoint = "stats"
    /\ resp.kind = "json"
    /\ Cardinality(DOMAIN table) > OrdersLimit
    /\ MatchingIds(req.args, table) = {}
    /\ resp.body.total_orders = 0
    /\ resp.body.unique_symbols = 0

\* C9: every error of every endpoint is answered with a structured JSON error
\* (failure flag and message) and a status of 400, 404 or 500.
C9_ErrorsAreStructuredJson ==
    req # NoRequest =>
        /\ resp.kind = "json"
        /\ resp.status \in {200, 400, 404, 500}
        /\ resp.status # 200 => resp.body.success = FALSE

Held(k) == {c \in Callers : conn[c] = k}

\* C8: a call of execute_query that gets a connection gets a fresh one, runs
\* exactly one statement on it and closes it exactly once before it returns or
\* raises, also when the statement fails; a call whose connect fails holds none.
\* No connection is held by two calls, and once every call is over no connection
\* is open.
C8_ConnectionClosedOncePerCall ==
    /\ \A c \in Callers :
          /\ pc[c] = "returned" => conn[c] # 0
          /\ (pc[c] \in {"returned", "raised"} /\ conn[c] # 0) =>
                /\ ~conns[conn[c]].open
                /\ conns[conn[c]].statements = 1
                /\ conns[conn[c]].closes = 1
          /\ pc[c] \in {"connected", "fetched", "failing"} =>
                (conn[c] # 0 /\ conns[conn[c]].open)
    /\ \A k \in 1..Len(conns) :
          /\ conns[k].uses = 1
          /\ conns[k].statements <= 1
          /\ conns[k].closes <= 1
          /\ Cardinality(Held(k)) <= 1
          /\ conns[k].open => Held(k) = {conns[k].owner}
    /\ (\A c \in Callers : pc[c] = "idle") => \A k \in 1..Len(conns) : ~conns[k].open

C8_Witness ==
    /\ \A c \in Callers : pc[c] = "idle"
    /\ Len(conns) = MaxConns
    /\ \E j, k \in 1..Len(conns) :
          /\ conns[j].owner # conns[k].owner
          /\ conns[j].failed /\ conns[j].closes = 1
          /\ ~conns[k].failed /\ conns[k].closes = 1

DotsOrSlash(filename) ==
    \/ \E i \in 1..(Len(filename) - 1) : filename[i] = "." /\ filename[i + 1] = "."
    \/ \E i \in 1..Len(filename) : filename[i] = "/"

\* C5: a config file read or write whose filename contains ".." or "/" is answered
\* 400 with success false, and no filesystem call is made for it: no file is
\* tested, opened, created or changed.
C5_BadFilenameTouchesNothing ==
    /\ (req # NoRequest /\ req.endpoint \in {"read", "write"} /\ DotsOrSlash(req.filename)) =>
          /\ resp.kind = "json"
          /\ resp.status = 400
          /\ resp.body.success = FALSE
          /\ io.fsops = <<>>
    /\ \A f \in Filenames : DotsOrSlash(f) => files[f] = NoFile

C5_Witness ==
    /\ req # NoRequest
    /\ req.endpoint = "write"
    /\ req.filename = Parent \o <<"/">> \o AJson
    /\ req.data = Body(Nested)
    /\ resp.status = 400
    /\ files[AJson] = Dump(Obj(<<>>))

ReadBack ==
    /\ req # NoRequest
    /\ req.endpoint = "read"
    /\ req.filename = AJson
    /\ written[AJson] # <<>>
    /\ ~(resp.status = 500 /\ resp.body.error = "OSError")

\* C6 as claimed: a read that follows a write of any JSON value v (object, array,
\* number, boolean, string or null) to the same file returns success with v.
C6_RoundTripOfEveryValue ==
    ReadBack => (resp.status = 200 /\ resp.body.content = written[AJson][1])

\* C6 amended: a read that follows a write of a JSON object, array, number or
\* boolean v to the same file, with no OSError in either, returns success with a
\* content equal to v.
C6_RoundTripOfNonStringValue ==
    (ReadBack /\ written[AJson][1].k \in {"obj", "arr", "num", "bool"}) =>
        (resp.status = 200 /\ resp.body.content = written[AJson][1])

C6_Witness ==
    /\ ReadBack
    /\ written[AJson][1] = Nested
    /\ resp.status = 200
    /\ resp.body.content = Nested

EncodingsOf(chars) == {o \in Objects : \E style \in Styles : Encode(o, style, 0) = chars}

\* C7: a write whose content is the JSON-encoded string of an object succeeds and
\* leaves the file with the text that the write of the object itself leaves.
C7_StringAndObjectPayloadsAgree ==
    (/\ req # NoRequest
     /\ req.endpoint = "write"
     /\ req.filename = AJson
     /\ HasContent(req.data)
     /\ GetContent(req.data.v).k = "str"
     /\ ~(resp.status = 500 /\ resp.body.error = "OSError")) =>
        \A o \in EncodingsOf(GetContent(req.data.v).s) :
            /\ resp.status = 200
            /\ SaveConfigFileHandler(AJson, Body(o), files, "ok").resp.status = 200
            /\ SaveConfigFileHandler(AJson, Body(o), files, "ok").files[AJson] = files[AJson]

C7_Witness ==
    /\ req # NoRequest
    /\ req.endpoint = "write"
    /\ req.filename = AJson
    /\ req.data = Body(JStr(Encode(Nested, "compact", 0)))
    /\ resp.status = 200
    /\ files[AJson] = Dump(Nested)

====
